---- MODULE Spec2Model ----
(***************************************************************************)
(* A model of the ctree tutorial's specializers for np_map / np_reduce /   *)
(* np_elementwise (examples/np_functional.py, np_functional_inline.py,     *)
(* np_map_no_lambda.py): the tree rewriting passes, the class-level        *)
(* counters and lists they keep, the translation unit they assemble, the   *)
(* specialization cache in front of them and the loops they emit.          *)
(***************************************************************************)
EXTENDS Integers, Sequences, FiniteSets, TLC

VARIABLES
    module,            \* which example module the process runs
    tree,              \* the captured function body (original_tree)
    lambda_counter,    \* LambdaLifter.lambda_counter (class attribute)
    func_count,        \* func_count of each transformer subclass
    lifted_functions,  \* the class-level lifted_functions list
    count,             \* NpReduceTransformer._count (inline module)
    cache,             \* the specialization cache: a set of [sig, art] entries
    calls,             \* one record per call of the specialized wrapper
    pc,                \* position of the emitted code being executed
    buf,               \* the buffer A the emitted code works on
    buf0,              \* the buffer as it was when the emitted code started
    buf2,              \* the buffer B of an emitted elementwise, as passed
    aliased,           \* TRUE when B is the very buffer A
    idx,               \* the loop variable i
    acc,               \* the accumulator of an emitted reduce
    visited,           \* the indices the loop body has run for, in order
    returned,          \* <<>> or <<the value the emitted code returned>>
    code               \* the emitted loop function being executed

vars == <<module, tree, lambda_counter, func_count, lifted_functions, count,
          cache, calls, pc, buf, buf0, buf2, aliased, idx, acc, visited,
          returned, code>>

procVars == <<module, tree, lambda_counter, func_count, lifted_functions,
              count, cache, calls>>
execVars == <<pc, buf, buf0, buf2, aliased, idx, acc, visited, returned, code>>

----------------------------------------------------------------------------
(* Bounds of the model. *)

\* calls of the specialized wrapper in one behaviour
MaxCalls == 2
\* largest element value of an input buffer
MaxVal == 1

----------------------------------------------------------------------------
(* The node model: every node is a record of the same shape.               *)
(*   kind  the node class            id   its name / callee / operator     *)
(*   num   the value of a Constant   kids its children, in field order     *)
(*   ty    <<>> or <<type>>          ref  <<>> or <<return_ref>>           *)
(* A call's first child is its callee (func), the rest are its args.       *)

Node(kind, id, kids) ==
    [kind |-> kind, id |-> id, num |-> 0, kids |-> kids, ty |-> <<>>, ref |-> <<>>]

Typed(node, type) == [node EXCEPT !.ty = <<type>>]

Name(id) == Node("Name", id, <<>>)
BinOp(op) == Node("BinOp", op, <<>>)
Lambda(body) == Node("Lambda", "", <<body>>)
Call(func, args) == Node("Call", "", <<func>> \o args)
Expr(value) == Node("Expr", "", <<value>>)
PyAssign(target, value) == Node("Assign", target, <<value>>)
PyReturn(value) == Node("Return", "", <<value>>)
Param(id) == Node("arg", id, <<>>)
FunctionDef(name, params, body) == Node("FunctionDef", name, params \o body)

SymbolRef(name) == Node("SymbolRef", name, <<>>)
Constant(n) == [Node("Constant", "", <<>>) EXCEPT !.num = n]
FunctionCall(func, args) == Node("FunctionCall", "", <<func>> \o args)
ArrayRef(base, index) == Node("ArrayRef", "", <<base, index>>)
Assign(target, value) == Node("CAssign", "", <<target, value>>)
Lt(left, right) == Node("Lt", "", <<left, right>>)
PreInc(arg) == Node("PreInc", "", <<arg>>)
For(init, test, incr, body) == Node("For", "", <<init, test, incr>> \o body)
Return(value) == Node("CReturn", "", <<value>>)
FunctionDecl(return_type, name, params, defn) ==
    Typed(Node("FunctionDecl", name, params \o defn), return_type)
CppDefine(name, body) == Node("CppDefine", name, <<body>>)
MultiNode(body, return_ref) ==
    [Node("MultiNode", "", body) EXCEPT !.ref = <<return_ref>>]

c_int == [dtype |-> "c_int", ndim |-> 0, shape |-> <<>>]

RECURSIVE Prod(_)
Prod(shape) == IF shape = <<>> THEN 1 ELSE Head(shape) * Prod(Tail(shape))

----------------------------------------------------------------------------
(* PyBasicConversions, as far as these modules rely on it: Python nodes    *)
(* become their C counterparts, children first.                            *)

RECURSIVE PyBasicConversions(_)
RECURSIVE ConvertAll(_)
ConvertAll(kids) == [k \in 1 .. Len(kids) |-> PyBasicConversions(kids[k])]

PyBasicConversions(node) ==
    LET n == [node EXCEPT !.kids = ConvertAll(node.kids)]
    IN  CASE n.kind = "Name" -> [n EXCEPT !.kind = "SymbolRef"]
          [] n.kind = "arg" -> [n EXCEPT !.kind = "SymbolRef"]
          [] n.kind = "Call" -> [n EXCEPT !.kind = "FunctionCall"]
          [] n.kind = "Return" -> [n EXCEPT !.kind = "CReturn"]
          [] n.kind = "Assign" ->
                Assign(SymbolRef(n.id), n.kids[1])
          [] n.kind = "Expr" -> n.kids[1]
          [] n.kind = "FunctionDef" -> [n EXCEPT !.kind = "FunctionDecl"]
          [] OTHER -> n

----------------------------------------------------------------------------
(* LambdaLifter (the same class in every module that has one).  The lifter *)
(* instance owns `out`; the counter is the class attribute.                *)

LambdaName(n) == "LAMBDA_" \o ToString(n)

RECURSIVE LiftVisit(_, _, _)
RECURSIVE LiftKids(_, _, _)

\* generic_visit: the children in order, the lifter's state threaded through
LiftKids(kids, lc, out) ==
    IF kids = <<>> THEN [kids |-> <<>>, lc |-> lc, out |-> out]
    ELSE LET h == LiftVisit(Head(kids), lc, out)
             t == LiftKids(Tail(kids), h.lc, h.out)
         IN  [kids |-> <<h.node>> \o t.kids, lc |-> t.lc, out |-> t.out]

\* a visit_Lambda that names the macro and leaves the counter as it is
visit_Lambda_same_number(node, g) ==
    LET macro_name == LambdaName(g.lc)
        conv == PyBasicConversions([node EXCEPT !.kids = g.kids])
        macro == CppDefine(macro_name, conv.kids[1])
    IN  [node |-> SymbolRef(macro_name), lc |-> g.lc,
         out |-> Append(g.out, macro)]

\* visit_Lambda once generic_visit has returned g
visit_Lambda(node, g) ==
    LET macro_name == LambdaName(g.lc)
        conv == PyBasicConversions([node EXCEPT !.kids = g.kids])
        macro == CppDefine(macro_name, conv.kids[1])
    IN  [node |-> SymbolRef(macro_name), lc |-> g.lc + 1,
         out |-> Append(g.out, macro)]

LiftVisit(node, lc, out) ==
    LET g == LiftKids(node.kids, lc, out)
    IN  IF node.kind = "Lambda" THEN visit_Lambda(node, g)
        ELSE [node |-> [node EXCEPT !.kids = g.kids], lc |-> g.lc,
              out |-> g.out]

----------------------------------------------------------------------------
(* The class-level state the passes read and write, threaded through the   *)
(* traversal; `error` is the message of the exception that ended it.       *)

ClassState(lc, fc, lifted, cnt) ==
    [lambda_counter |-> lc, func_count |-> fc, lifted_functions |-> lifted,
     count |-> cnt, error |-> ""]

Raise(st, message) == [st EXCEPT !.error = message]

transformers == <<"np_map", "np_reduce", "np_elementwise">>

ElementsType(array_type) ==
    [dtype |-> array_type.dtype, ndim |-> 0, shape |-> <<>>]

----------------------------------------------------------------------------
(* np_functional.py: each recognized call becomes a call of a generated    *)
(* loop function; the function is appended to the class-level list.        *)

gen_func_name(func_name, fc) ==
    [name |-> func_name \o "_" \o ToString(fc[func_name]),
     func_count |-> [fc EXCEPT ![func_name] = @ + 1]]

\* a map loop that starts at index 1 and so never touches A[0]
MapLoop_from_one(array_ref, inner_function, number_items) ==
    For(Assign(Typed(SymbolRef("i"), c_int), Constant(1)),
        Lt(SymbolRef("i"), Constant(number_items)),
        PreInc(SymbolRef("i")),
        <<Assign(ArrayRef(array_ref, SymbolRef("i")),
                 FunctionCall(inner_function,
                              <<ArrayRef(array_ref, SymbolRef("i"))>>))>>)

MapLoop(array_ref, inner_function, number_items) ==
    For(Assign(Typed(SymbolRef("i"), c_int), Constant(0)),
        Lt(SymbolRef("i"), Constant(number_items)),
        PreInc(SymbolRef("i")),
        <<Assign(ArrayRef(array_ref, SymbolRef("i")),
                 FunctionCall(inner_function,
                              <<ArrayRef(array_ref, SymbolRef("i"))>>))>>)

get_func_def_map(array_type, inner_function, name) ==
    LET number_items == Prod(array_type.shape)
        params == <<Typed(SymbolRef("A"), array_type)>>
        return_type == array_type
        defn == <<MapLoop(SymbolRef("A"), inner_function, number_items),
                  Return(SymbolRef("A"))>>
    IN  FunctionDecl(return_type, name, params, defn)

ReduceInit(accumulator_ref, array_ref, elements_type) ==
    Assign(Typed(SymbolRef(accumulator_ref), elements_type),
           ArrayRef(array_ref, Constant(0)))

\* a reduce loop that starts at index 0 and so folds A[0] in twice
ReduceLoop_from_zero(accumulator_ref, array_ref, inner_function, number_items) ==
    For(Assign(Typed(SymbolRef("i"), c_int), Constant(0)),
        Lt(SymbolRef("i"), Constant(number_items)),
        PreInc(SymbolRef("i")),
        <<Assign(SymbolRef(accumulator_ref),
                 FunctionCall(inner_function,
                              <<SymbolRef(accumulator_ref),
                                ArrayRef(array_ref, SymbolRef("i"))>>))>>)

ReduceLoop(accumulator_ref, array_ref, inner_function, number_items) ==
    For(Assign(Typed(SymbolRef("i"), c_int), Constant(1)),
        Lt(SymbolRef("i"), Constant(number_items)),
        PreInc(SymbolRef("i")),
        <<Assign(SymbolRef(accumulator_ref),
                 FunctionCall(inner_function,
                              <<SymbolRef(accumulator_ref),
                                ArrayRef(array_ref, SymbolRef("i"))>>))>>)

get_func_def_reduce(array_type, inner_function, name) ==
    LET number_items == Prod(array_type.shape)
        params == <<Typed(SymbolRef("A"), array_type)>>
        elements_type == ElementsType(array_type)
        return_type == elements_type
        defn == <<ReduceInit("accumulator", SymbolRef("A"), elements_type),
                  ReduceLoop("accumulator", SymbolRef("A"), inner_function,
                             number_items),
                  Return(SymbolRef("accumulator"))>>
    IN  FunctionDecl(return_type, name, params, defn)

\* the elementwise loop with its second operand read from the first buffer
ElementwiseLoop_first_twice(a_ref, b_ref, inner_function, number_items) ==
    For(Assign(Typed(SymbolRef("i"), c_int), Constant(0)),
        Lt(SymbolRef("i"), Constant(number_items)),
        PreInc(SymbolRef("i")),
        <<Assign(ArrayRef(a_ref, SymbolRef("i")),
                 FunctionCall(inner_function,
                              <<ArrayRef(a_ref, SymbolRef("i")),
                                ArrayRef(a_ref, SymbolRef("i"))>>))>>)

ElementwiseLoop(a_ref, b_ref, inner_function, number_items) ==
    For(Assign(Typed(SymbolRef("i"), c_int), Constant(0)),
        Lt(SymbolRef("i"), Constant(number_items)),
        PreInc(SymbolRef("i")),
        <<Assign(ArrayRef(a_ref, SymbolRef("i")),
                 FunctionCall(inner_function,
                              <<ArrayRef(a_ref, SymbolRef("i")),
                                ArrayRef(b_ref, SymbolRef("i"))>>))>>)

get_func_def_elementwise(array_type, inner_function, name) ==
    LET number_items == Prod(array_type.shape)
        params == <<Typed(SymbolRef("A"), array_type),
                    Typed(SymbolRef("B"), array_type)>>
        return_type == array_type
        defn == <<ElementwiseLoop(SymbolRef("A"), SymbolRef("B"),
                                  inner_function, number_items),
                  Return(SymbolRef("A"))>>
    IN  FunctionDecl(return_type, name, params, defn)

get_func_def(func_name, array_type, inner_function, name) ==
    CASE func_name = "np_map" ->
            get_func_def_map(array_type, inner_function, name)
      [] func_name = "np_reduce" ->
            get_func_def_reduce(array_type, inner_function, name)
      [] func_name = "np_elementwise" ->
            get_func_def_elementwise(array_type, inner_function, name)

\* node.func.id of a Call, None ("") when the callee is not a plain name
FuncId(node) == IF node.kids[1].kind = "Name" THEN node.kids[1].id ELSE ""
\* node.args of a Call
Args(node) == Tail(node.kids)

\* convert once the lambda lifter has visited the first argument
convert_lifted(func_name, array_type, node, st, lambda_lifter) ==
    LET extended == st.lifted_functions \o lambda_lifter.out
        name == gen_func_name(func_name, st.func_count).name
        func_def == get_func_def(func_name, array_type, lambda_lifter.node, name)
        c_node == FunctionCall(SymbolRef(name), Tail(Args(node)))
    IN  [node |-> c_node,
         st |-> [st EXCEPT !.lambda_counter = lambda_lifter.lc,
                           !.func_count =
                               gen_func_name(func_name, st.func_count).func_count,
                           !.lifted_functions = Append(extended, func_def)]]

\* BaseNpFunctionalTransformer.convert of np_functional.py
convert(func_name, array_type, node, st) ==
    IF Args(node) = <<>> THEN [node |-> node, st |-> Raise(st, "IndexError")]
    ELSE IF Args(node)[1].kind # "Lambda"
    THEN [node |-> node,
          st |-> Raise(st, func_name \o " requires lambda to be specialized")]
    ELSE convert_lifted(func_name, array_type, node, st,
                        LiftVisit(Args(node)[1], st.lambda_counter, <<>>))

----------------------------------------------------------------------------
(* np_map_no_lambda.py: the one pass of that module.  The first argument   *)
(* is used as it is; the generated function is always named func_name.     *)

convert_no_lambda(func_name, array_type, node, st) ==
    IF Args(node) = <<>> THEN [node |-> node, st |-> Raise(st, "IndexError")]
    ELSE
    LET inner_function == Args(node)[1]
        func_def == get_func_def_map(array_type, inner_function, func_name)
        c_node == FunctionCall(SymbolRef(func_def.id), Tail(Args(node)))
    IN  [node |-> c_node,
         st |-> [st EXCEPT !.lifted_functions = Append(@, func_def)]]

----------------------------------------------------------------------------
(* np_functional_inline.py: each recognized call becomes a MultiNode of    *)
(* the statements hoisted from its arguments, the lifted macros and the    *)
(* loop, tagged with return_ref.                                           *)

\* getattr(x, 'return_ref', x)
ReturnRefOr(x) == IF x.ref # <<>> THEN x.ref[1] ELSE x

RECURSIVE _get_params(_)
_get_params(args) ==
    IF args = <<>> THEN <<>>
    ELSE <<ReturnRefOr(Head(args))>> \o _get_params(Tail(args))

RECURSIVE _get_defn(_)
_get_defn(args) ==
    IF args = <<>> THEN <<>>
    ELSE (IF Head(args).kind = "MultiNode" THEN Head(args).kids ELSE <<>>)
         \o _get_defn(Tail(args))

AccumulatorName(n) == "accumulator_" \o ToString(n)

\* get_def of the three inline transformers: [defn, return_ref, count, error]
get_def(func_name, array_type, inner_function, params, cnt) ==
    LET number_items == Prod(array_type.shape)
        elements_type == ElementsType(array_type)
        accumulator_ref == AccumulatorName(cnt)
        needed == IF func_name = "np_elementwise" THEN 2 ELSE 1
    IN  IF Len(params) < needed
        THEN [defn |-> <<>>, return_ref |-> SymbolRef(""), count |-> cnt,
              error |-> "IndexError"]
        ELSE
        CASE func_name = "np_map" ->
                [defn |-> <<MapLoop(params[1], inner_function, number_items)>>,
                 return_ref |-> params[1], count |-> cnt, error |-> ""]
          [] func_name = "np_reduce" ->
                [defn |-> <<ReduceInit(accumulator_ref, params[1], elements_type),
                            ReduceLoop(accumulator_ref, params[1],
                                       inner_function, number_items)>>,
                 return_ref |-> SymbolRef(accumulator_ref),
                 count |-> cnt + 1, error |-> ""]
          [] func_name = "np_elementwise" ->
                [defn |-> <<ElementwiseLoop(params[1], params[2],
                                            inner_function, number_items)>>,
                 return_ref |-> params[1], count |-> cnt, error |-> ""]

\* convert once the lambda lifter has run and get_def has returned d
convert_inline_built(node, lifted, lambda_lifter, d) ==
    IF d.error # "" THEN [node |-> node, st |-> Raise(lifted, d.error)]
    ELSE [node |-> MultiNode(_get_defn(Tail(Args(node)))
                             \o lambda_lifter.out \o d.defn, d.return_ref),
          st |-> [lifted EXCEPT !.count = d.count]]

convert_inline_lifted(func_name, array_type, node, st, lambda_lifter) ==
    convert_inline_built(node,
        [st EXCEPT !.lambda_counter = lambda_lifter.lc], lambda_lifter,
        get_def(func_name, array_type, lambda_lifter.node,
                _get_params(Tail(Args(node))), st.count))

\* BaseNpFunctionalTransformer.convert of np_functional_inline.py
convert_inline(func_name, array_type, node, st) ==
    IF Args(node) = <<>> THEN [node |-> node, st |-> Raise(st, "IndexError")]
    ELSE IF Args(node)[1].kind # "Lambda"
    THEN [node |-> node,
          st |-> Raise(st, func_name \o " requires lambda to be specialized")]
    ELSE convert_inline_lifted(func_name, array_type, node, st,
                               LiftVisit(Args(node)[1], st.lambda_counter, <<>>))

----------------------------------------------------------------------------
(* One lowering pass over a tree (NodeTransformer.visit with the pass's    *)
(* visit_Call): children first, in field order; an exception ends it.      *)

Convert(mod, func_name, array_type, node, st) ==
    CASE mod = "np_functional" -> convert(func_name, array_type, node, st)
      [] mod = "np_functional_inline" ->
            convert_inline(func_name, array_type, node, st)
      [] mod = "np_map_no_lambda" ->
            convert_no_lambda(func_name, array_type, node, st)

\* the positions of a tree: the indices of the children from the root down
RECURSIVE Positions(_)
Positions(node) ==
    {<<>>} \cup UNION {{<<k>> \o p : p \in Positions(node.kids[k])} :
                       k \in 1 .. Len(node.kids)}

RECURSIVE NodeAt(_, _)
NodeAt(node, p) ==
    IF p = <<>> THEN node ELSE NodeAt(node.kids[Head(p)], Tail(p))

RECURSIVE ReplaceAt(_, _, _)
ReplaceAt(node, p, new) ==
    IF p = <<>> THEN new
    ELSE [node EXCEPT !.kids[Head(p)] = ReplaceAt(@, Tail(p), new)]

\* generic_visit goes through the children in field order and visit_Call
\* calls it first: p is reached before q when p lies below q, or in an
\* earlier child where the two part
Before(p, q) ==
    \/ Len(q) < Len(p) /\ SubSeq(p, 1, Len(q)) = q
    \/ \E i \in 1 .. Len(p) :
          /\ i <= Len(q)
          /\ SubSeq(p, 1, i - 1) = SubSeq(q, 1, i - 1)
          /\ p[i] < q[i]

RECURSIVE PostOrder(_)
PostOrder(ps) ==
    IF ps = {} THEN <<>>
    ELSE LET first == CHOOSE p \in ps : \A q \in ps \ {p} : Before(p, q)
         IN  <<first>> \o PostOrder(ps \ {first})

\* the Call nodes visit_Call converts: those whose callee is func_name
Sites(node, func_name) ==
    {p \in Positions(node) :
        NodeAt(node, p).kind = "Call" /\ FuncId(NodeAt(node, p)) = func_name}

\* visit_Call at position p, its children already visited: the node is
\* replaced by what convert returns
ConvertAt(mod, func_name, array_type, p, r) ==
    LET c == Convert(mod, func_name, array_type, NodeAt(r.node, p), r.st)
    IN  IF c.st.error # "" THEN [node |-> r.node, st |-> c.st]
        ELSE [node |-> ReplaceAt(r.node, p, c.node), st |-> c.st]

\* the sites in the order visit reaches them; r is the tree and the class
\* state so far, and nothing more is visited once convert has raised
RECURSIVE VisitInOrder(_, _, _, _, _)
VisitInOrder(mod, func_name, array_type, sites, r) ==
    IF sites = <<>> \/ r.st.error # "" THEN r
    ELSE VisitInOrder(mod, func_name, array_type, Tail(sites),
                  ConvertAt(mod, func_name, array_type, Head(sites), r))

\* NodeTransformer.visit of one pass over the tree
PassVisit(mod, func_name, array_type, node, st) ==
    VisitInOrder(mod, func_name, array_type, PostOrder(Sites(node, func_name)),
             [node |-> node, st |-> st])

----------------------------------------------------------------------------
(* AssignFixer of np_functional_inline.py.                                 *)

\* a _get_defn that hoists the composite node and leaves the value as it is
AssignFixer_get_defn_value_kept(node) ==
    LET value == node.kids[Len(node.kids)]
    IN  IF value.ref = <<>> THEN node
        ELSE Node("MultiNode", "", <<value, node>>)

AssignFixer_get_defn(node) ==
    LET value == node.kids[Len(node.kids)]
    IN  IF value.ref = <<>> THEN node
        ELSE LET defn == value
                 fixed == [node EXCEPT !.kids[Len(node.kids)] = defn.ref[1]]
             IN  Node("MultiNode", "", <<defn, fixed>>)

RECURSIVE AssignFixer(_)
RECURSIVE AssignFixerKids(_)
AssignFixerKids(kids) == [k \in 1 .. Len(kids) |-> AssignFixer(kids[k])]

AssignFixer(node) ==
    LET n == [node EXCEPT !.kids = AssignFixerKids(node.kids)]
    IN  IF n.kind \in {"Assign", "Return", "CReturn"}
        THEN AssignFixer_get_defn(n)
        ELSE n

----------------------------------------------------------------------------
(* The Pipeline Composer: NpFunctionalTransformer.visit, and the single    *)
(* pass np_map_no_lambda.py runs in its place.                             *)

RECURSIVE RunPasses(_, _, _, _)
\* r is the tree and class state so far; an exception ends the loop
RunPasses(mod, names, array_type, r) ==
    IF names = <<>> \/ r.st.error # "" THEN r
    ELSE RunPasses(mod, Tail(names), array_type,
                   PassVisit(mod, Head(names), array_type, r.node, r.st))

Passes(mod) == IF mod = "np_map_no_lambda" THEN <<"np_map">> ELSE transformers

\* AssignFixer().visit(tree), the last step of the inline module's visit
FixUp(mod, r) ==
    IF mod = "np_functional_inline" /\ r.st.error = ""
    THEN [node |-> AssignFixer(r.node), st |-> r.st]
    ELSE r

NpFunctionalTransformer_visit(mod, array_type, t, st) ==
    FixUp(mod, RunPasses(mod, Passes(mod), array_type, [node |-> t, st |-> st]))

----------------------------------------------------------------------------
(* BasicTranslator: the signature, the translation unit, the artifact.     *)

\* an array argument: element type, shape and the identity of the object
Array(dtype, shape, oid) == [dtype |-> dtype, shape |-> shape, oid |-> oid]

\* a signature that tells two array objects of one type apart
args_to_subconfig_by_identity(arg) ==
    [dtype |-> arg.dtype, ndim |-> Len(arg.shape), shape |-> arg.shape,
     oid |-> arg.oid]

\* a signature that keeps the element count but not the dimensions
args_to_subconfig_by_count(arg) ==
    [dtype |-> arg.dtype, ndim |-> 1, shape |-> <<Prod(arg.shape)>>]

args_to_subconfig(arg) ==
    [dtype |-> arg.dtype, ndim |-> Len(arg.shape), shape |-> arg.shape]

CFile(name, body) == Node("CFile", name, body)

\* fn = tree.find(FunctionDecl, name="apply") and the types set on it
TypeApply(mod, fn, arg_type) ==
    LET withParam == [fn EXCEPT !.kids[1] = Typed(@, arg_type)]
    IN  IF mod = "np_map_no_lambda" THEN withParam
        ELSE Typed(withParam, ElementsType(arg_type))

\* return [c_translator], once the composer has returned r and the
\* conversions c; nothing is returned when the composer raised
Translated(mod, arg_type, r, c) ==
    IF c.kind # "FunctionDecl"
    THEN [unit |-> <<>>, composed |-> <<>>, st |-> Raise(r.st, "AttributeError")]
    ELSE [unit |-> IF mod = "np_functional_inline"
                   THEN <<CFile("generated", <<TypeApply(mod, c, arg_type)>>)>>
                   ELSE <<CFile("generated", r.st.lifted_functions
                                   \o <<TypeApply(mod, c, arg_type)>>)>>,
          composed |-> <<r.node>>, st |-> r.st]

Assemble(mod, arg_type, r) ==
    IF r.st.error # "" THEN [unit |-> <<>>, composed |-> <<>>, st |-> r.st]
    ELSE Translated(mod, arg_type, r, PyBasicConversions(r.node))

\* transform: [unit, composed, st]; st.error # "" when it raised
transform(mod, t, arg_type, st) ==
    Assemble(mod, arg_type, NpFunctionalTransformer_visit(mod, arg_type, t, st))

\* finalize: the artifact BasicFunction wraps once _compile has succeeded
finalize(mod, transform_result, arg_type) ==
    [entry_name |-> "apply", project |-> transform_result, obj |-> 0,
     restype |-> IF mod = "np_map_no_lambda" THEN <<>>
                 ELSE <<ElementsType(arg_type)>>,
     argtype |-> arg_type]

----------------------------------------------------------------------------
(* The specialization cache in front of transform / finalize.              *)

Cached(c, signature) == {e \in c : e.sig = signature}

\* built is the outcome of build_fn: [ok, art]; it is used only on a miss
get_or_build(c, signature, built) ==
    IF Cached(c, signature) # {}
    THEN [cache |-> c, hit |-> TRUE,
          result |-> <<(CHOOSE e \in Cached(c, signature) : TRUE).art>>]
    ELSE IF built.ok
    THEN [cache |-> c \cup {[sig |-> signature, art |-> built.art]},
          hit |-> FALSE, result |-> <<built.art>>]
    ELSE [cache |-> c, hit |-> FALSE, result |-> <<>>]

----------------------------------------------------------------------------
(* The captured functions and the arguments the model draws from.          *)

Kinds == {"np_map", "np_reduce", "np_elementwise"}
Modules == {"np_functional", "np_functional_inline", "np_map_no_lambda"}

a == Name("a")
UnaryOps == {"x*2", "x+1"}
BinaryOps == {"x+y", "x-y"}
OuterOp(func_name) == IF func_name = "np_map" THEN "x*2" ELSE "x+y"
InnerOp(func_name) == IF func_name = "np_map" THEN "x+1" ELSE "x-y"

\* func_name(first, buffer) or np_elementwise(first, buffer, a)
Recognized(func_name, first, buffer) ==
    Call(Name(func_name),
         IF func_name = "np_elementwise" THEN <<first, buffer, a>>
         ELSE <<first, buffer>>)

Apply(body) == FunctionDef("apply", <<Param("a")>>, body)

\* the sum_array of np_functional.py and np_functional_inline.py
sum_array ==
    Apply(<<Expr(Call(Name("np_map"), <<Lambda(BinOp("x*2")), a>>)),
            Expr(Call(Name("np_elementwise"), <<Lambda(BinOp("x+y")), a, a>>)),
            PyReturn(Call(Name("np_reduce"),
                          <<Lambda(BinOp("x+y")),
                            Call(Name("np_map"), <<Lambda(BinOp("x/4")), a>>)>>))>>)

\* return func_name(lambda, a)
Single(func_name) ==
    Apply(<<PyReturn(Recognized(func_name, Lambda(BinOp(OuterOp(func_name))), a))>>)

\* return outer(lambda, inner(lambda, a))
Nested(outer, inner) ==
    Apply(<<PyReturn(Recognized(outer, Lambda(BinOp(OuterOp(outer))),
                Recognized(inner, Lambda(BinOp(InnerOp(inner))), a)))>>)

\* return func_name(f, a): the first argument is a name, not a lambda
Malformed(func_name) ==
    Apply(<<PyReturn(Recognized(func_name, Name("f"), a))>>)

\* foo(lambda, a); return np_map(lambda, a): a lambda outside a recognized call
Stray ==
    Apply(<<Expr(Call(Name("foo"), <<Lambda(BinOp("x+1")), a>>)),
            PyReturn(Recognized("np_map", Lambda(BinOp("x*2")), a))>>)

\* return np_map(lambda x: (lambda y: y+1)(x), a): a lambda in a lambda
LambdaInLambda ==
    Apply(<<PyReturn(Recognized("np_map",
                Lambda(Call(Lambda(BinOp("x+1")), <<Name("x")>>)), a))>>)

\* b = np_map(lambda, a); c = b; return np_reduce(lambda, c)
Assigned ==
    Apply(<<PyAssign("b", Recognized("np_map", Lambda(BinOp("x*2")), a)),
            PyAssign("c", Name("b")),
            PyReturn(Recognized("np_reduce", Lambda(BinOp("x+y")), Name("c")))>>)

Programs ==
    {sum_array, Stray, LambdaInLambda, Assigned}
    \cup {Single(k) : k \in Kinds}
    \cup {Malformed(k) : k \in Kinds}
    \cup {Nested(o, i) : o \in Kinds, i \in Kinds}

Arrays ==
    {Array("int", <<0>>, 1), Array("int", <<3>>, 2), Array("int", <<3>>, 3),
     Array("int", <<2, 2>>, 4)}

----------------------------------------------------------------------------
(* The process: one module, one captured function, calls of the wrapper.   *)

ExecIdle ==
    /\ pc = "idle"
    /\ buf = <<>>
    /\ buf0 = <<>>
    /\ buf2 = <<>>
    /\ aliased = FALSE
    /\ idx = 0
    /\ acc = 0
    /\ visited = <<>>
    /\ returned = <<>>
    /\ code = <<>>

Init ==
    /\ module \in Modules
    /\ tree \in Programs
    /\ lambda_counter = 0
    /\ func_count = [k \in Kinds |-> 0]
    /\ lifted_functions = <<>>
    /\ count = 0
    /\ cache = {}
    /\ calls = <<>>
    /\ ExecIdle

\* the record of a call that built: t is what transform returned
BuildRecord(arg, signature, compiler_ok, t, result) ==
    [arg |-> arg, sig |-> signature, hit |-> FALSE,
     error |-> IF t.st.error # "" THEN t.st.error
               ELSE IF compiler_ok THEN "" ELSE "compile error",
     compiled |-> t.st.error = "",
     unit |-> t.unit, composed |-> t.composed, result |-> result]

HitRecord(arg, signature, result) ==
    [arg |-> arg, sig |-> signature, hit |-> TRUE, error |-> "",
     compiled |-> FALSE, unit |-> <<>>, composed |-> <<>>, result |-> result]

\* a build that reports success although the native compiler failed
Built_swallowed(mod, signature, compiler_ok, obj, t) ==
    IF t.st.error # "" THEN [ok |-> FALSE, art |-> <<>>]
    ELSE [ok |-> TRUE,
          art |-> [finalize(mod, t.unit, signature) EXCEPT !.obj = obj]]

Built(mod, signature, compiler_ok, obj, t) ==
    IF t.st.error # "" THEN [ok |-> FALSE, art |-> <<>>]
    ELSE [ok |-> compiler_ok,
          art |-> [finalize(mod, t.unit, signature) EXCEPT !.obj = obj]]

\* the native compiler rejects a file that defines one function twice
Redefinition(unit) ==
    \E f \in 1 .. Len(unit) :
        \E k1, k2 \in 1 .. Len(unit[f].kids) :
            /\ k1 < k2
            /\ unit[f].kids[k1].kind = "FunctionDecl"
            /\ unit[f].kids[k2].kind = "FunctionDecl"
            /\ unit[f].kids[k1].id = unit[f].kids[k2].id

Compiles(compiler_ok, t) ==
    IF t.st.error # "" THEN FALSE ELSE compiler_ok /\ ~Redefinition(t.unit)

CallMiss(arg, signature, compiler_ok, obj, c, t) ==
    LET g == get_or_build(c, signature,
                          Built(module, signature, Compiles(compiler_ok, t),
                                obj, t))
    IN  [cache |-> g.cache, st |-> t.st,
         call |-> BuildRecord(arg, signature, Compiles(compiler_ok, t), t,
                              g.result)]

\* What one call c_f(arg) does: the signature is looked up and built on a
\* miss; compiler_ok is the native compiler's answer if it is asked.  The
\* class-level state changes only when the build runs.
CallOutcome(arg, compiler_ok, obj, st, c) ==
    IF Cached(c, args_to_subconfig(arg)) # {}
    THEN [cache |-> c, st |-> st,
          call |-> HitRecord(arg, args_to_subconfig(arg),
                     get_or_build(c, args_to_subconfig(arg),
                                  [ok |-> FALSE, art |-> <<>>]).result)]
    ELSE CallMiss(arg, args_to_subconfig(arg), compiler_ok, obj, c,
                  transform(module, tree, args_to_subconfig(arg), st))

CallSpecialized(arg, compiler_ok) ==
    /\ Len(calls) < MaxCalls
    /\ LET o == CallOutcome(arg, compiler_ok, Len(calls) + 1,
                   ClassState(lambda_counter, func_count, lifted_functions,
                              count), cache)
       IN  /\ cache' = o.cache
           /\ lambda_counter' = o.st.lambda_counter
           /\ func_count' = o.st.func_count
           /\ lifted_functions' = o.st.lifted_functions
           /\ count' = o.st.count
           /\ calls' = Append(calls, o.call)
    /\ UNCHANGED <<module, tree>>
    /\ UNCHANGED execVars

Next == \E arg \in Arrays, compiler_ok \in BOOLEAN : CallSpecialized(arg, compiler_ok)

Spec == Init /\ [][Next]_vars

\* The same process called with arrays that differ in element type, in
\* rank, in one dimension, or only in being another object.
ArraysOfVaryingType ==
    {Array("int", <<0>>, 1), Array("int", <<4>>, 2), Array("int", <<4>>, 3),
     Array("int", <<2, 2>>, 4), Array("float", <<4>>, 5),
     Array("int", <<2, 3>>, 6)}

InitVarying ==
    /\ module \in Modules
    /\ tree \in {sum_array, Malformed("np_map")} \cup {Single(k) : k \in Kinds}
    /\ lambda_counter = 0
    /\ func_count = [k \in Kinds |-> 0]
    /\ lifted_functions = <<>>
    /\ count = 0
    /\ cache = {}
    /\ calls = <<>>
    /\ ExecIdle

NextVarying ==
    \E arg \in ArraysOfVaryingType, compiler_ok \in BOOLEAN :
        CallSpecialized(arg, compiler_ok)

SpecVarying == InitVarying /\ [][NextVarying]_vars

\* The same process with the objects of the captured function told apart:
\* every node of the function carries the number of its object in num (1
\* for the root, ten times the parent's plus k for its k-th child); the
\* nodes the rewrites build carry 0.  A rewrite that installs an object it
\* was given leaves the object's number on it.
RECURSIVE Tagged(_, _)
Tagged(node, object) ==
    [node EXCEPT !.num = object,
                 !.kids = [k \in 1 .. Len(node.kids) |->
                              Tagged(node.kids[k], object * 10 + k)]]

\* return np_map(lambda x: x*2, foo(a)): the buffer argument is a call
BufferCall ==
    Apply(<<PyReturn(Recognized("np_map", Lambda(BinOp("x*2")),
                                Call(Name("foo"), <<a>>)))>>)

InitOwned ==
    /\ module \in Modules
    /\ tree \in {Tagged(t, 1) : t \in Programs \cup {BufferCall}}
    /\ lambda_counter = 0
    /\ func_count = [k \in Kinds |-> 0]
    /\ lifted_functions = <<>>
    /\ count = 0
    /\ cache = {}
    /\ calls = <<>>
    /\ ExecIdle

SpecOwned == InitOwned /\ [][Next]_vars

----------------------------------------------------------------------------
(* Running the emitted code: one generated loop function of                *)
(* np_functional.py on a buffer, statement by statement.                   *)

\* the shapes and element values the buffers are drawn from
Shapes == {<<0>>, <<1>>, <<3>>, <<2, 2>>, <<2, 0>>}
Vals == 0 .. MaxVal
Buffers(shape) == [1 .. Prod(shape) -> Vals]

\* the body of a lifted lambda applied to its arguments
ApplyOp(op, args) ==
    CASE op = "x*2" -> args[1] * 2
      [] op = "x+1" -> args[1] + 1
      [] op = "x+y" -> args[1] + args[2]
      [] op = "x-y" -> args[1] - args[2]

\* the reference implementations np_map, np_reduce and np_elementwise
np_map(op, array) == [i \in 1 .. Len(array) |-> ApplyOp(op, <<array[i]>>)]

RECURSIVE FoldLeft(_, _, _)
FoldLeft(op, value, rest) ==
    IF rest = <<>> THEN value
    ELSE FoldLeft(op, ApplyOp(op, <<value, Head(rest)>>), Tail(rest))

np_reduce(op, array) == FoldLeft(op, Head(array), Tail(array))

np_elementwise(op, array1, array2) ==
    [i \in 1 .. Len(array1) |-> ApplyOp(op, <<array1[i], array2[i]>>)]

\* the parts of a generated FunctionDecl
DeclFor(decl) == CHOOSE n \in {decl.kids[k] : k \in 1 .. Len(decl.kids)} : n.kind = "For"
DeclReturn(decl) == decl.kids[Len(decl.kids)]
DeclBefore(decl) ==
    SelectSeq(decl.kids, LAMBDA n : n.kind = "CAssign")
Macro(macros, name) ==
    CHOOSE m \in {macros[k] : k \in 1 .. Len(macros)} :
        m.kind = "CppDefine" /\ m.id = name

\* the value of an expression of the emitted code; junk is what a read
\* outside the buffer yields
RECURSIVE Eval(_, _, _, _, _, _)
RECURSIVE EvalAll(_, _, _, _, _, _)
EvalAll(es, macros, b, i, accumulator, junk) ==
    IF es = <<>> THEN <<>>
    ELSE <<Eval(Head(es), macros, b, i, accumulator, junk)>>
         \o EvalAll(Tail(es), macros, b, i, accumulator, junk)

Eval(e, macros, b, i, accumulator, junk) ==
    CASE e.kind = "Constant" -> e.num
      [] e.kind = "SymbolRef" -> IF e.id = "i" THEN i ELSE accumulator
      [] e.kind = "ArrayRef" ->
            LET at == Eval(e.kids[2], macros, b, i, accumulator, junk)
                array == b[e.kids[1].id]
            IN  IF at + 1 \in DOMAIN array THEN array[at + 1] ELSE junk
      [] e.kind = "Lt" ->
            IF Eval(e.kids[1], macros, b, i, accumulator, junk)
               < Eval(e.kids[2], macros, b, i, accumulator, junk)
            THEN 1 ELSE 0
      [] e.kind = "FunctionCall" ->
            ApplyOp(Macro(macros, e.kids[1].id).kids[1].id,
                    EvalAll(Tail(e.kids), macros, b, i, accumulator, junk))

InBuffer(e, b, i) ==
    e.kind # "ArrayRef" \/ (IF e.kids[2].kind = "Constant" THEN e.kids[2].num
                            ELSE i) + 1 \in DOMAIN b[e.kids[1].id]

\* the function convert generates for func_name(lambda: op, a) and the
\* macro it calls
Emitted(func_name, op, array_type) ==
    LET r == convert(func_name, array_type,
                     Recognized(func_name, Lambda(BinOp(op)), a),
                     ClassState(0, [k \in Kinds |-> 0], <<>>, 0))
    IN  [func_name |-> func_name, op |-> op, array_type |-> array_type,
         macros |-> r.st.lifted_functions,
         decl |-> r.st.lifted_functions[Len(r.st.lifted_functions)]]

ExecKinds == {"np_map", "np_reduce", "np_elementwise"}
OpsOf(func_name) == IF func_name = "np_map" THEN UnaryOps ELSE BinaryOps

InitExec ==
    /\ module = "np_functional"
    /\ tree = sum_array
    /\ lambda_counter = 0
    /\ func_count = [k \in Kinds |-> 0]
    /\ lifted_functions = <<>>
    /\ count = 0
    /\ cache = {}
    /\ calls = <<>>
    /\ \E func_name \in ExecKinds, shape \in Shapes :
         \E op \in OpsOf(func_name), b \in Buffers(shape) :
            /\ code = Emitted(func_name, op,
                              args_to_subconfig(Array("int", shape, 1)))
            /\ buf = b
            /\ buf0 = b
            /\ IF func_name = "np_elementwise"
               THEN /\ aliased \in BOOLEAN
                    /\ buf2 \in IF aliased THEN {b} ELSE Buffers(shape)
               ELSE /\ aliased = FALSE
                    /\ buf2 = <<>>
    /\ pc = "call"
    /\ idx = 0
    /\ acc = 0
    /\ visited = <<>>
    /\ returned = <<>>

\* the buffers the parameters A and B of the running function point to
Memory == [A |-> buf, B |-> IF aliased THEN buf ELSE buf2]

\* the statements before the loop, then the loop's init
ExecEnter ==
    /\ pc = "call"
    /\ \E junk \in Vals :
         LET before == DeclBefore(code.decl)
             loop == DeclFor(code.decl)
         IN  /\ (before # <<>> /\ ~InBuffer(before[1].kids[2], Memory, 0)) \/ junk = 0
             /\ acc' = IF before = <<>> THEN acc
                       ELSE Eval(before[1].kids[2], code.macros, Memory, idx, acc, junk)
             /\ idx' = Eval(loop.kids[1].kids[2], code.macros, Memory, idx, acc, junk)
    /\ pc' = "test"
    /\ UNCHANGED <<buf, buf0, buf2, aliased, visited, returned, code>>
    /\ UNCHANGED procVars

\* the test holds: the body's assignment, then the increment; an access
\* outside the buffer is undefined behaviour, kept as the state "fault"
ExecIterate ==
    /\ pc = "test"
    /\ LET loop == DeclFor(code.decl)
           body == loop.kids[4]
           value == Eval(body.kids[2], code.macros, Memory, idx, acc, 0)
       IN  /\ Eval(loop.kids[2], code.macros, Memory, idx, acc, 0) = 1
           /\ IF ~InBuffer(body.kids[1], Memory, idx)
                 \/ ~InBuffer(body.kids[2].kids[Len(body.kids[2].kids)], Memory, idx)
              THEN /\ pc' = "fault"
                   /\ UNCHANGED <<buf, acc, visited, idx>>
              ELSE /\ pc' = pc
                   /\ buf' = IF body.kids[1].kind = "ArrayRef"
                             THEN [buf EXCEPT ![idx + 1] = value] ELSE buf
                   /\ acc' = IF body.kids[1].kind = "ArrayRef"
                             THEN acc ELSE value
                   /\ visited' = Append(visited, idx)
                   /\ idx' = idx + 1
    /\ UNCHANGED <<buf0, buf2, aliased, returned, code>>
    /\ UNCHANGED procVars

\* the test fails: the loop is left
ExecExit ==
    /\ pc = "test"
    /\ Eval(DeclFor(code.decl).kids[2], code.macros, Memory, idx, acc, 0) = 0
    /\ pc' = "return"
    /\ UNCHANGED <<buf, buf0, buf2, aliased, idx, acc, visited, returned,
                   code>>
    /\ UNCHANGED procVars

\* return A hands back the buffer, return accumulator the accumulator
ExecReturn ==
    /\ pc = "return"
    /\ returned' = IF DeclReturn(code.decl).kids[1].id = "A" THEN <<buf>>
                 ELSE <<acc>>
    /\ pc' = "done"
    /\ UNCHANGED <<buf, buf0, buf2, aliased, idx, acc, visited, code>>
    /\ UNCHANGED procVars

NextExec == ExecEnter \/ ExecIterate \/ ExecExit \/ ExecReturn

SpecExec == InitExec /\ [][NextExec]_vars

----------------------------------------------------------------------------
(* Properties.                                                             *)

\* the Type Signature of an argument: element type, rank and shape
TypeSignature(arg) ==
    [dtype |-> arg.dtype, ndim |-> Len(arg.shape), shape |-> arg.shape]

Builds == {i \in 1 .. Len(calls) : ~calls[i].hit}
SuccessfulBuilds(s) ==
    {i \in Builds : TypeSignature(calls[i].arg) = s /\ calls[i].error = ""}

RECURSIVE KindCount(_, _)
RECURSIVE KindCountAll(_, _)
KindCountAll(kids, kind) ==
    IF kids = <<>> THEN 0
    ELSE KindCount(Head(kids), kind) + KindCountAll(Tail(kids), kind)
KindCount(node, kind) ==
    (IF node.kind = kind THEN 1 ELSE 0) + KindCountAll(node.kids, kind)

RECURSIVE RecognizedCount(_, _)
RECURSIVE RecognizedCountAll(_, _)
RecognizedCountAll(kids, names) ==
    IF kids = <<>> THEN 0
    ELSE RecognizedCount(Head(kids), names)
         + RecognizedCountAll(Tail(kids), names)
RecognizedCount(node, names) ==
    (IF node.kind = "Call" /\ FuncId(node) \in names THEN 1 ELSE 0)
    + RecognizedCountAll(node.kids, names)

\* the statements of a body, MultiNodes at statement level opened up
RECURSIVE Statements(_)
Statements(stmts) ==
    IF stmts = <<>> THEN <<>>
    ELSE (IF Head(stmts).kind = "MultiNode" THEN Statements(Head(stmts).kids)
          ELSE <<Head(stmts)>>) \o Statements(Tail(stmts))

LoopBound(loop) == loop.kids[2].kids[2].num
LoopOp(stmts, loop) == Macro(stmts, loop.kids[4].kids[2].kids[1].id).kids[1].id

(* C1: over any sequence of calls of the wrapper, a call whose Type        *)
(* Signature was built successfully before is a hit that returns the       *)
(* stored artifact; any other call runs the build and, when it succeeds,   *)
(* returns its artifact and leaves it in the cache under the signature.    *)
(* So the cache holds at most one artifact per signature and no signature  *)
(* is built successfully twice.                                            *)
C1_GetOrBuild ==
    /\ \A e1, e2 \in cache : e1.sig = e2.sig => e1 = e2
    /\ \A i \in 1 .. Len(calls) :
         LET s == TypeSignature(calls[i].arg)
             earlier == {j \in SuccessfulBuilds(s) : j < i}
         IN  IF earlier # {}
             THEN /\ calls[i].hit
                  /\ \A j \in earlier : calls[i].result = calls[j].result
             ELSE /\ ~calls[i].hit
                  /\ calls[i].error = "" =>
                       /\ calls[i].result # <<>>
                       /\ [sig |-> s, art |-> calls[i].result[1]] \in cache
    /\ \A arg \in Arrays :
         Cardinality(SuccessfulBuilds(TypeSignature(arg))) <= 1

\* a second array object of an already built signature was served from the cache
C1_Witness ==
    \E i, j \in 1 .. Len(calls) :
        /\ i < j
        /\ calls[j].hit
        /\ calls[i].error = "" /\ ~calls[i].hit
        /\ calls[i].arg # calls[j].arg
        /\ calls[j].result = calls[i].result

C2_Retry ==
    \A i, j \in 1 .. Len(calls) :
        (/\ i < j
         /\ calls[i].error # ""
         /\ TypeSignature(calls[j].arg) = TypeSignature(calls[i].arg)
         /\ {k \in SuccessfulBuilds(TypeSignature(calls[i].arg)) : k < j} = {})
        => ~calls[j].hit /\ (calls[j].compiled \/ calls[j].error # "")

C2_Step ==
    (/\ Len(calls') = Len(calls) + 1
     /\ calls'[Len(calls')].error # "")
    => cache' = cache

(* C2: a call whose build fails, in transform (a malformed first argument, *)
(* an IndexError of the lowering) or in the native compiler, leaves the    *)
(* cache exactly as it was, and the next call with that signature is a     *)
(* miss that runs the build again.                                         *)
C2_FailedBuildNotCached == [](C2_Retry) /\ [][C2_Step]_vars

\* a failed build was followed by a successful build of the same signature
C2_Witness ==
    \E i, j \in 1 .. Len(calls) :
        /\ i < j
        /\ calls[i].error = "compile error"
        /\ calls[j].sig = calls[i].sig
        /\ ~calls[j].hit /\ calls[j].error = ""
        /\ Cardinality(cache) = 1

(* C4: any two runs of the pipeline on the captured function with the same *)
(* Type Signature assemble the same translation unit, whatever ran before. *)
C4_Determinism ==
    \A i, j \in Builds :
        (/\ calls[i].unit # <<>>
         /\ calls[j].unit # <<>>
         /\ calls[i].sig = calls[j].sig)
        => calls[i].unit = calls[j].unit

(* C5: when NpFunctionalTransformer.visit returns normally, the tree it    *)
(* returns holds no Lambda node and no Call of np_map, np_reduce or        *)
(* np_elementwise.                                                         *)
C5_LiftingComplete ==
    \A i \in Builds :
        (module # "np_map_no_lambda" /\ calls[i].composed # <<>>)
        => /\ KindCount(calls[i].composed[1], "Lambda") = 0
           /\ RecognizedCount(calls[i].composed[1], Kinds) = 0

(* C6: for return outer(f, inner(g, a)) with any outer and inner among     *)
(* map, reduce and elementwise, the inline composer's output has exactly   *)
(* two loops, both statements of the function body, the inner call's loop  *)
(* first, and both run to the signature's element count.                   *)
C6_NestedComposition ==
    \A i \in Builds : \A outer, inner \in Kinds :
        (/\ module = "np_functional_inline"
         /\ tree = Nested(outer, inner)
         /\ calls[i].composed # <<>>)
        => LET body == Statements(Tail(calls[i].composed[1].kids))
               loops == SelectSeq(body, LAMBDA n : n.kind = "For")
           IN  /\ KindCount(calls[i].composed[1], "For") = 2
               /\ Len(loops) = 2
               /\ LoopOp(body, loops[1]) = InnerOp(inner)
               /\ LoopOp(body, loops[2]) = OuterOp(outer)
               /\ LoopBound(loops[1]) = Prod(calls[i].sig.shape)
               /\ LoopBound(loops[2]) = Prod(calls[i].sig.shape)

(* C7: a build whose signature has element count zero and whose function   *)
(* calls np_reduce fails in transform, before the native compiler is       *)
(* invoked.                                                                *)
C7_ZeroLengthReduce ==
    \A i \in Builds :
        (/\ module # "np_map_no_lambda"
         /\ Prod(calls[i].sig.shape) = 0
         /\ RecognizedCount(tree, {"np_reduce"}) > 0)
        => calls[i].error # "" /\ ~calls[i].compiled

(* C8: in every module, a build of a function whose recognized call has a  *)
(* name instead of a lambda as its first argument fails with the error     *)
(* naming the operation, and the native compiler is not invoked.           *)
C8_MalformedInput ==
    \A i \in Builds : \A k \in Kinds :
        (/\ tree = Malformed(k)
         /\ \E n \in 1 .. Len(Passes(module)) : Passes(module)[n] = k)
        => /\ calls[i].error = k \o " requires lambda to be specialized"
           /\ ~calls[i].compiled

\* the elements the emitted code has and has not gone over yet
Done(i) == i < idx
Upto(n) == [k \in 1 .. n |-> k - 1]

(* C9: the loop emitted for np_map runs its body for the indices 0, 1, ... *)
(* in increasing order, once each; every element it has passed holds f of  *)
(* its old value and the others are untouched; when the loop is left all n *)
(* = product of the shape elements have been passed, and the function      *)
(* returns the buffer np_map gives (the buffer itself when n = 0).         *)
C9_MapSemantics ==
    code.func_name = "np_map" =>
        /\ pc # "fault"
        /\ visited = Upto(Len(visited))
        /\ pc = "test" => Len(visited) = idx
        /\ pc \in {"test", "return", "done"} =>
             \A k \in 1 .. Len(buf0) :
                buf[k] = IF Done(k - 1) THEN ApplyOp(code.op, <<buf0[k]>>)
                         ELSE buf0[k]
        /\ pc \in {"return", "done"} =>
             /\ Len(visited) = Prod(code.array_type.shape)
             /\ buf = np_map(code.op, buf0)
        /\ pc = "done" => returned = <<np_map(code.op, buf0)>>

\* a map over four elements has returned
C9_Witness ==
    /\ code.func_name = "np_map"
    /\ pc = "done"
    /\ Len(buf0) = 4
    /\ buf # buf0

(* C10: for n >= 1 elements, the code emitted for np_reduce starts the     *)
(* accumulator at A[0], folds A[1], ..., A[n-1] into it in that order with *)
(* accumulator = f(accumulator, A[i]), leaves the buffer alone and returns *)
(* the left fold np_reduce gives (A[0] when n = 1).                        *)
C10_ReduceSemantics ==
    (code.func_name = "np_reduce" /\ Len(buf0) >= 1) =>
        /\ pc # "fault"
        /\ buf = buf0
        /\ visited = [k \in 1 .. Len(visited) |-> k]
        /\ pc = "test" =>
             /\ idx = Len(visited) + 1
             /\ acc = np_reduce(code.op, SubSeq(buf0, 1, idx))
        /\ pc \in {"return", "done"} =>
             /\ Len(visited) = Prod(code.array_type.shape) - 1
             /\ acc = np_reduce(code.op, buf0)
        /\ pc = "done" => returned = <<np_reduce(code.op, buf0)>>

\* a reduce with a non-commutative f over four elements has returned
C10_Witness ==
    /\ code.func_name = "np_reduce"
    /\ code.op = "x-y"
    /\ pc = "done"
    /\ Len(buf0) = 4
    /\ returned # <<buf0[1]>>


\* the second operand as it was passed: the first buffer itself when aliased
Second0 == IF aliased THEN buf0 ELSE buf2

(* C11: the loop emitted for np_elementwise on two buffers of the same     *)
(* element count n >= 0 runs its body for i = 0, ..., n-1 once each without *)
(* leaving the buffers; every element of A it has passed holds f of its old *)
(* value and B's, the others are untouched; the function returns the first  *)
(* buffer, equal to what np_elementwise gives, also when B is A itself.     *)
C11_ElementwiseSemantics ==
    code.func_name = "np_elementwise" =>
        /\ pc # "fault"
        /\ visited = Upto(Len(visited))
        /\ Len(Second0) = Len(buf0)
        /\ pc \in {"test", "return", "done"} =>
             \A k \in 1 .. Len(buf0) :
                buf[k] = IF Done(k - 1)
                         THEN ApplyOp(code.op, <<buf0[k], Second0[k]>>)
                         ELSE buf0[k]
        /\ pc \in {"return", "done"} =>
             /\ Len(visited) = Prod(code.array_type.shape)
             /\ buf = np_elementwise(code.op, buf0, Second0)
        /\ pc = "done" =>
             /\ returned = <<buf>>
             /\ returned = <<np_elementwise(code.op, buf0, Second0)>>

\* an elementwise over two different buffers of four elements has returned
C11_Witness ==
    /\ code.func_name = "np_elementwise"
    /\ pc = "done"
    /\ ~aliased
    /\ Len(buf0) = 4
    /\ buf2 # buf0
    /\ buf # buf0
    /\ buf # np_elementwise(code.op, buf0, buf0)

\* an elementwise of a buffer with itself has returned
C11_WitnessAliased ==
    /\ code.func_name = "np_elementwise"
    /\ pc = "done"
    /\ aliased
    /\ Len(buf0) = 4
    /\ buf # buf0

\* the loops that run when the entry point of a translation unit is called:
\* those written in apply and those of the functions apply calls
NodesOf(node, kind) ==
    {NodeAt(node, p) : p \in {q \in Positions(node) : NodeAt(node, q).kind = kind}}
EntryPoint(file) ==
    CHOOSE d \in {file.kids[k] : k \in 1 .. Len(file.kids)} :
        d.kind = "FunctionDecl" /\ d.id = "apply"
CalledBy(decl) == {c.kids[1].id : c \in NodesOf(decl, "FunctionCall")}
InvokedLoops(file) ==
    NodesOf(EntryPoint(file), "For")
    \cup UNION {NodesOf(file.kids[k], "For") :
                   k \in {n \in 1 .. Len(file.kids) :
                             /\ file.kids[n].kind = "FunctionDecl"
                             /\ file.kids[n].id \in CalledBy(EntryPoint(file))}}
Served == {i \in 1 .. Len(calls) : calls[i].result # <<>>}

(* C12: over any sequence of calls with arrays of varying element type,    *)
(* rank and shape, two calls that got an artifact got the same one exactly  *)
(* when their arrays agree on element type, rank and every dimension, be    *)
(* they the same object or not; and every loop that runs when the artifact  *)
(* a call got is invoked is bounded by the product of the dimensions of     *)
(* that call's array.                                                       *)
C12_StructuralSignature ==
    /\ \A i, j \in Served :
         calls[i].result = calls[j].result
         <=> /\ calls[i].arg.dtype = calls[j].arg.dtype
             /\ Len(calls[i].arg.shape) = Len(calls[j].arg.shape)
             /\ \A d \in 1 .. Len(calls[i].arg.shape) :
                  d <= Len(calls[j].arg.shape)
                  => calls[i].arg.shape[d] = calls[j].arg.shape[d]
    /\ \A i \in Served :
         \A loop \in InvokedLoops(calls[i].result[1].project[1]) :
            LoopBound(loop) = Prod(calls[i].arg.shape)

\* two arrays of four elements that differ in rank were served by two
\* artifacts, each with a loop to run
C12_Witness ==
    \E i, j \in Served :
        /\ i < j
        /\ calls[i].arg.dtype = calls[j].arg.dtype
        /\ Prod(calls[i].arg.shape) = Prod(calls[j].arg.shape)
        /\ Len(calls[i].arg.shape) # Len(calls[j].arg.shape)
        /\ calls[i].result # calls[j].result
        /\ InvokedLoops(calls[i].result[1].project[1]) # {}
        /\ InvokedLoops(calls[j].result[1].project[1]) # {}

\* the declarations a file holds before its entry point
Auxiliary(file) == SubSeq(file.kids, 1, Len(file.kids) - 1)

(* C13: whenever a call assembles a translation unit, the auxiliary        *)
(* declarations in it (lifted units and generated loop functions) are       *)
(* exactly those its own lowering run has added to the accumulated list,    *)
(* so none left by an earlier specialization, successful or failed, is in   *)
(* it.                                                                      *)
C13_OwnDeclarations ==
    [][(Len(calls') = Len(calls) + 1 /\ calls'[Len(calls')].unit # <<>>)
       => Auxiliary(calls'[Len(calls')].unit[1])
          = SubSeq(lifted_functions', Len(lifted_functions) + 1,
                   Len(lifted_functions'))]_vars

\* the Generated Function Declarations of all lowerings so far, in the
\* order they were generated, and the names <operation>_<k>
Generated == SelectSeq(lifted_functions, LAMBDA d : d.kind = "FunctionDecl")
NamesOf(operation) ==
    {operation \o "_" \o ToString(k) : k \in 0 .. Len(lifted_functions)}
GeneratedFor(operation) ==
    SelectSeq(Generated, LAMBDA d : d.id \in NamesOf(operation))

(* C14: after any sequence of lowerings every Generated Function           *)
(* Declaration is named <operation>_<k>; the k of one operation are 0, 1,   *)
(* 2, ... in the order of generation, the operation's counter standing at   *)
(* the next one; and no two generated declarations have the same name.      *)
C14_GeneratedNames ==
    /\ \A n \in 1 .. Len(Generated) :
         \E operation \in Kinds : Generated[n].id \in NamesOf(operation)
    /\ \A operation \in Kinds :
         /\ \A n \in 1 .. Len(GeneratedFor(operation)) :
              GeneratedFor(operation)[n].id
              = operation \o "_" \o ToString(n - 1)
         /\ func_count[operation] = Len(GeneratedFor(operation))
    /\ \A n1, n2 \in 1 .. Len(Generated) :
         n1 # n2 => Generated[n1].id # Generated[n2].id

\* the Lifted Units of a list of declarations or statements, in its order
MacrosIn(list) == SelectSeq(list, LAMBDA d : d.kind = "CppDefine")
\* the lists Lifted Units are put in: the accumulated declarations, and the
\* statements of every composite node of a composed tree
Composed == {calls[i].composed[1] : i \in {n \in 1 .. Len(calls) : calls[n].composed # <<>>}}
OutputLists ==
    {lifted_functions}
    \cup UNION {{m.kids : m \in NodesOf(t, "MultiNode")} : t \in Composed}
LambdaNumbers == 0 .. lambda_counter
RefersTo(macro, j) == \E r \in NodesOf(macro, "SymbolRef") : r.id = LambdaName(j)

\* the Lifted Units one call has produced: appended to the accumulated list
\* (np_functional) or placed in the composed tree (np_functional_inline)
C15_Step ==
    /\ lambda_counter' >= lambda_counter
    /\ module = "np_functional" =>
         LET new == MacrosIn(SubSeq(lifted_functions', Len(lifted_functions) + 1,
                                    Len(lifted_functions')))
         IN  /\ Len(new) = lambda_counter' - lambda_counter
             /\ \A k \in 1 .. Len(new) :
                  new[k].id = LambdaName(lambda_counter + k - 1)
    /\ (/\ module = "np_functional_inline"
        /\ Len(calls') = Len(calls) + 1
        /\ calls'[Len(calls')].composed # <<>>) =>
         LET new == NodesOf(calls'[Len(calls')].composed[1], "CppDefine")
         IN  /\ Cardinality(new) = lambda_counter' - lambda_counter
             /\ {m.id : m \in new}
                = {LambdaName(n) : n \in lambda_counter .. lambda_counter' - 1}
    /\ module = "np_map_no_lambda" => lambda_counter' = lambda_counter

C15_Names ==
    /\ \A t1, t2 \in Composed :
         \A m1 \in NodesOf(t1, "CppDefine"), m2 \in NodesOf(t2, "CppDefine") :
            m1.id = m2.id => t1 = t2 /\ m1 = m2
    /\ \A k1, k2 \in 1 .. Len(MacrosIn(lifted_functions)) :
         k1 # k2 => MacrosIn(lifted_functions)[k1].id
                    # MacrosIn(lifted_functions)[k2].id
    /\ \A list \in OutputLists : \A k \in 1 .. Len(list) :
         list[k].kind = "CppDefine" =>
            /\ \E n \in LambdaNumbers :
                  n < lambda_counter /\ list[k].id = LambdaName(n)
            /\ \A n, j \in LambdaNumbers :
                  (list[k].id = LambdaName(n) /\ RefersTo(list[k], j)) =>
                     /\ j < n
                     /\ \E k0 \in 1 .. k - 1 :
                           /\ list[k0].kind = "CppDefine"
                           /\ list[k0].id = LambdaName(j)

(* C15: the lambda counter never decreases; every lambda lifted by any     *)
(* lifter in any run is named LAMBDA_<n> with the counter's value at that   *)
(* moment, and the counter then goes up by exactly one, so no two Lifted    *)
(* Units share a name; a lambda nested in a lambda is lifted first: it has  *)
(* the smaller number and stands earlier in the lifter's output list.       *)
C15_LambdaCounter == []C15_Names /\ [][C15_Step]_vars

\* a lambda nested in a lambda was lifted after an earlier run had lifted one
C15_Witness ==
    /\ lambda_counter >= 3
    /\ \E list \in OutputLists : \E k \in 1 .. Len(list) :
         /\ list[k].kind = "CppDefine"
         /\ \E j \in LambdaNumbers : j >= 1 /\ RefersTo(list[k], j)

\* the Assignments and Returns of a tree, and the right-hand side of one
AssignsAndReturns(t) ==
    NodesOf(t, "Assign") \cup NodesOf(t, "Return") \cup NodesOf(t, "CReturn")
Value(statement) == statement.kids[Len(statement.kids)]
Composite(node) == node.ref # <<>>
\* the tree the passes hand to the fix-up when the next call builds
Lowered(arg_type) ==
    RunPasses(module, Passes(module), arg_type,
              [node |-> tree,
               st |-> ClassState(lambda_counter, func_count, lifted_functions,
                                 count)]).node

\* what the fix-up made of the statements of the lowered function
C16_Step ==
    (/\ module = "np_functional_inline"
     /\ Len(calls') = Len(calls) + 1
     /\ calls'[Len(calls')].composed # <<>>) =>
        LET before == Lowered(calls'[Len(calls')].sig)
            after == calls'[Len(calls')].composed[1]
        IN  /\ [after EXCEPT !.kids = before.kids] = before
            /\ Len(after.kids) = Len(before.kids)
            /\ \A k \in 1 .. Len(before.kids) :
                 IF /\ before.kids[k].kind \in {"Assign", "Return"}
                    /\ Composite(Value(before.kids[k]))
                 THEN after.kids[k]
                      = Node("MultiNode", "",
                             <<Value(before.kids[k]),
                               [before.kids[k] EXCEPT
                                  !.kids[Len(before.kids[k].kids)] =
                                      Value(before.kids[k]).ref[1]]>>)
                 ELSE after.kids[k] = before.kids[k]
            /\ \A s \in AssignsAndReturns(after) :
                 ~Composite(Value(s)) /\ Value(s).kind # "MultiNode"

(* C16: the fix-up replaces every Assignment or Return whose right-hand    *)
(* side is a composite node (statements plus result reference) by the       *)
(* hoisted statements followed by the same Assignment or Return with the    *)
(* result reference as its right-hand side; afterwards no Assignment or     *)
(* Return has a composite node as its value, and a statement whose value    *)
(* carries no result reference is left as it was.                           *)
C16_FixUp == [][C16_Step]_vars

\* a composed function whose Assignment of a map and Return of a reduce
\* were fixed and whose plain Assignment was kept
C16_Witness ==
    /\ module = "np_functional_inline"
    /\ tree = Assigned
    /\ \E i \in 1 .. Len(calls) :
         /\ calls[i].composed # <<>>
         /\ LET body == Tail(calls[i].composed[1].kids)
            IN  /\ body[1].kind = "MultiNode"
                /\ Composite(body[1].kids[1])
                /\ body[1].kids[2] = PyAssign("b", a)
                /\ body[2] = PyAssign("c", Name("b"))
                /\ body[3].kind = "MultiNode"
                /\ Composite(body[3].kids[1])
                /\ body[3].kids[2].kind = "Return"
                /\ body[3].kids[2].kids[1].kind = "SymbolRef"

\* the places of a tree where an object of the captured function sits as
\* it was given (not inside a macro, whose body is a converted copy)
InMacro(t, p) ==
    \E n \in 0 .. Len(p) : NodeAt(t, SubSeq(p, 1, n)).kind = "CppDefine"
Installed(t) ==
    {p \in Positions(t) : /\ p # <<>>
                          /\ NodeAt(t, p).num # 0
                          /\ NodeAt(t, p).kind # "Constant"
                          /\ ~InMacro(t, p)}
ParentOf(p) == SubSeq(p, 1, Len(p) - 1)
\* two places hold one object under one parent: the parent is one object
\* of the captured function sitting at two places itself
SameParent(t, p, q) ==
    /\ NodeAt(t, ParentOf(p)).num # 0
    /\ NodeAt(t, ParentOf(p)).num = NodeAt(t, ParentOf(q)).num
SingleOwner(t) ==
    \A p, q \in Installed(t) :
        (/\ p # q
         /\ NodeAt(t, p).num = NodeAt(t, q).num
         /\ NodeAt(t, p).kind \notin {"Name", "SymbolRef"})
        => SameParent(t, p, q)

(* C17: in the tree a lowering produces, every node other than a           *)
(* SymbolReference has exactly one parent: no node object of the captured   *)
(* function, such as the buffer argument of a lowered call, is the child of *)
(* two different nodes.                                                     *)
C17_SingleOwnership ==
    \A i \in 1 .. Len(calls) :
        calls[i].composed # <<>> => SingleOwner(calls[i].composed[1])

====
